---- MODULE Spec2Model ----
(***************************************************************************)
(* The activity ledger of time-tracker (src-tauri/src/activities.rs) and   *)
(* the host commands that call it under the ledger mutex                   *)
(* (src-tauri/src/main.rs).                                                *)
(*                                                                         *)
(* The two SQLite tables are sequences of rows in rowid order.  Rows are   *)
(* never deleted one by one, so the rowid SQLite assigns to a new row      *)
(* (largest rowid + 1, or 1 in an empty table) is its position.            *)
(* An Option<T> is a sequence of length 0 (None) or 1 (Some).              *)
(*                                                                         *)
(* Times are seconds since the epoch.  The clock starts at the epoch and   *)
(* an offset is one second either way, so that now + offset falls on both  *)
(* sides of 0, of the clock and of the stored times, within a few steps.   *)
(* A command that reads the clock twice (start_activity and the            *)
(* stop_activity it calls, clear_activities and its stop_activity) may     *)
(* read the next second the second time.                                   *)
(* In SpecUI the offset is the one the dialog holds, a multiple of 600     *)
(* seconds, and the clock stands still.                                    *)
(*                                                                         *)
(* Spec        one run of the application, each command one step           *)
(* SpecDay     the same, started in the last second of a day               *)
(* SpecRestart the application closed and started again on its database    *)
(* SpecFail    the writing commands with a statement that fails            *)
(* SpecHost    the commands on two threads of the host, step by step under *)
(*             the Mutex, and export_activities with its save dialog       *)
(* SpecUI      the start form, the Stop button and the offset dialog of    *)
(*             components/reporting.rs, with the commands they invoke      *)
(* SpecNotifications  the notifications of notifications.rs, posted and    *)
(*             removed by the interval that fires every second             *)
(***************************************************************************)
EXTENDS Integers, Sequences, FiniteSets, TLC

VARIABLES
    activities,        \* table activities(id, name, start_time, end_time)
    clears,            \* table clears(id, time)
    now,               \* SystemTime::now(), in seconds since the epoch
    poisoned,          \* the ledger Mutex is poisoned: a command panicked holding it
    last,              \* the last command that wrote to the ledger: its arguments and its result
    cleared_at,        \* history: the time of the newest marker clear_activities inserted, or -1
    lock,              \* the ledger Mutex: None, or Some(the thread that holds its guard)
    pc,                \* for each thread of the host, the command it runs and where it is in it
    file,              \* the file export_activities wrote: None, or Some(its lines)
    message,           \* the notification Actions::export showed last, or None
    reporting,         \* the signals of Reporting and of its OffsetModal
    messages           \* Messages.messages: the notifications shown, with the time of their post

\* the threads of the host, what they wrote outside the ledger and what the
\* presentation layer shows
host == <<lock, pc, file, message>>

\* the components of the presentation layer that hold state
frontend == <<reporting, messages>>

vars ==
    <<activities, clears, now, poisoned, last, cleared_at, lock, pc, file, message,
      reporting, messages>>

\* ------------------------------------------------------------------ bounds

\* the clock stops advancing at MaxNow
MaxNow == 1
\* start_activity is not called with MaxRows rows in activities
MaxRows == 2
\* clear_activities is not called with MaxClears rows in clears
MaxClears == 2

\* the seconds of a day: todays_activities rounds the clock down to a multiple of it
DaySeconds == 86400

\* the application starts at the epoch, or in the last second of the first day, and
\* the clock stops advancing MaxNow seconds after that
ClockEnd(t) == IF t < DaySeconds - 1 THEN MaxNow ELSE DaySeconds - 1 + MaxNow

Names == {"A", "B"}
\* offset: a start or stop backdated by a second, now, or postdated by a second
Offsets == {-1, 0, 1}
\* the clock a command reads a second time: the same second, or the next one
Later(t, tick) == IF tick THEN t + 1 ELSE t

\* ----------------------------------------------------------------- helpers

None == <<>>
Some(x) == <<x>>

Max(a, b) == IF a >= b THEN a ELSE b

Range(s) == {s[i] : i \in DOMAIN s}

\* row.get::<_, u64>(i): an INTEGER column read as u64 fails when it is negative
u64_from_sql(v) == IF v >= 0 THEN [err |-> FALSE, val |-> v] ELSE [err |-> TRUE, val |-> 0]

\* a u64 computed without overflow checks: the integer s when s >= 0, and
\* 2^64 + s (wrapped is TRUE) when the subtraction that produced it went below 0
U64(s) == [wrapped |-> s < 0, val |-> s]

\* ------------------------------------------------------- activities.rs

\* a statement that empties the table it reads
select_deleting(table) == <<>>

\* the table after a SELECT statement was prepared and its rows were read: the
\* four queries run nothing but SELECT statements on a &self ledger
select(table) == table

\* the positions of the rows WHERE end_time IS NULL
OpenRows(acts) == {i \in DOMAIN acts : acts[i].end_time = None}

\* ORDER BY start_time DESC LIMIT 1 over the open rows
LatestOpen(acts) ==
    CHOOSE i \in OpenRows(acts) :
        \A j \in OpenRows(acts) :
            \/ acts[j].start_time < acts[i].start_time
            \/ acts[j].start_time = acts[i].start_time /\ i <= j

currrent_activity(acts) ==
    IF OpenRows(acts) = {}
    THEN [err |-> FALSE, val |-> None]
    ELSE LET row == acts[LatestOpen(acts)]
             start_time == u64_from_sql(row.start_time)
         IN  IF start_time.err
             THEN [err |-> TRUE, val |-> None]
             ELSE [err |-> FALSE,
                   val |-> Some([name |-> row.name, start_time |-> start_time.val])]

\* end_time = now + offset, without the clamp
stop_end_time_unclamped(cur, t, offset) == t + offset

\* end_time = now + offset, clamped to the start_time of the current activity
stop_end_time(cur, t, offset) ==
    IF cur # None /\ t + offset < cur[1].start_time
    THEN cur[1].start_time
    ELSE t + offset

\* the UPDATE without its WHERE clause
update_end_time_no_where(acts, end_time) ==
    [i \in DOMAIN acts |-> [acts[i] EXCEPT !.end_time = Some(end_time)]]

\* UPDATE activities SET end_time = ? WHERE end_time IS NULL
update_end_time(acts, end_time) ==
    [i \in DOMAIN acts |->
        IF acts[i].end_time = None
        THEN [acts[i] EXCEPT !.end_time = Some(end_time)]
        ELSE acts[i]]

\* t is the clock stop_activity reads
stop_activity(acts, t, offset) ==
    LET cur == currrent_activity(acts)
    IN  IF cur.err
        THEN [err |-> TRUE, activities |-> acts]
        ELSE [err |-> FALSE,
              activities |-> update_end_time(acts, stop_end_time(cur.val, t, offset))]

\* start_time = now + offset, clamped to the start_time of the current activity
start_start_time(cur, t, offset) ==
    IF cur # None /\ t + offset < cur[1].start_time
    THEN cur[1].start_time
    ELSE t + offset

\* INSERT INTO activities (name, start_time) VALUES (?, ?)
insert_activity(acts, name, start_time) ==
    Append(acts, [id |-> Len(acts) + 1, name |-> name,
                  start_time |-> start_time, end_time |-> None])

\* start_activity that inserts without stopping the current activity
start_activity_no_stop(acts, t1, t2, name, offset) ==
    LET cur == currrent_activity(acts)
    IN  IF cur.err
        THEN [err |-> TRUE, activities |-> acts]
        ELSE [err |-> FALSE,
              activities |->
                  insert_activity(acts, name, start_start_time(cur.val, t1, offset))]

\* t1 is the clock start_activity reads, t2 >= t1 the clock the stop_activity
\* it calls reads
start_activity(acts, t1, t2, name, offset) ==
    LET cur == currrent_activity(acts)
    IN  IF cur.err
        THEN [err |-> TRUE, activities |-> acts]
        ELSE LET start_time == start_start_time(cur.val, t1, offset)
                 stopped == stop_activity(acts, t2, offset)
             IN  IF stopped.err
                 THEN [err |-> TRUE, activities |-> acts]
                 ELSE [err |-> FALSE,
                       activities |->
                           insert_activity(stopped.activities, name, start_time)]

\* SELECT name FROM activities, without DISTINCT
list_activities_all(acts) == [i \in DOMAIN acts |-> acts[i].name]

\* SELECT DISTINCT name FROM activities, each name where the scan first meets it
list_activities(acts) ==
    LET first == {i \in DOMAIN acts : \A j \in 1..(i - 1) : acts[j].name # acts[i].name}
        isfirst(r) == r.id \in first
    IN  [i \in 1..Cardinality(first) |-> SelectSeq(acts, isfirst)[i].name]

\* (SELECT time FROM clears ORDER BY time ASC LIMIT 1): the oldest marker
first_clear(clrs) ==
    IF clrs = <<>> THEN None
    ELSE Some(CHOOSE t \in {c.time : c \in Range(clrs)} :
                  \A c \in Range(clrs) : c.time >= t)

\* (SELECT time FROM clears ORDER BY time DESC LIMIT 1): NULL when clears is empty
last_clear(clrs) ==
    IF clrs = <<>> THEN None
    ELSE Some(CHOOSE t \in {c.time : c \in Range(clrs)} :
                  \A c \in Range(clrs) : c.time <= t)

\* WHERE start_time >= (...): a comparison with NULL selects no row
counted_rows(acts, clrs) ==
    LET since == last_clear(clrs)
        counted(r) == since # None /\ r.start_time >= since[1]
    IN  SelectSeq(acts, counted)

\* the for loop of activities_times over rows[i..], acc the sums so far
RECURSIVE sum_durations(_, _, _, _, _)
sum_durations(rows, i, acc, t, dbg) ==
    IF i > Len(rows)
    THEN [kind |-> "Ok", val |-> [n \in DOMAIN acc |-> U64(acc[n])]]
    ELSE LET row == rows[i]
             start_time == u64_from_sql(row.start_time)
             end_time == IF row.end_time = None
                         THEN [err |-> FALSE, val |-> 0]
                         ELSE u64_from_sql(row.end_time[1])
             until == IF row.end_time = None THEN t ELSE end_time.val
             duration == until - start_time.val
             sum == IF row.name \in DOMAIN acc THEN acc[row.name] ELSE 0
         IN  IF start_time.err \/ end_time.err
             THEN [kind |-> "Err", val |-> <<>>]
             ELSE IF dbg /\ duration < 0
             THEN [kind |-> "Panic", val |-> <<>>]
             ELSE sum_durations(rows, i + 1,
                      [n \in DOMAIN acc \cup {row.name} |->
                          IF n = row.name THEN sum + duration ELSE acc[n]],
                      t, dbg)

activities_times(acts, clrs, t, dbg) ==
    sum_durations(counted_rows(acts, clrs), 1, <<>>, t, dbg)

\* todays_activities with the lower bound of activities_times: the rows started
\* today and not before the newest marker
todays_activities_since_clear(acts, clrs, t) ==
    LET today == t - (t % DaySeconds)
        rows == SelectSeq(counted_rows(acts, clrs), LAMBDA r : r.start_time >= today)
    IN  [err |-> FALSE,
         val |-> [i \in DOMAIN rows |->
                     <<rows[i].name, rows[i].start_time, rows[i].end_time>>]]

\* t is the clock todays_activities reads; clrs is not read
todays_activities(acts, clrs, t) ==
    LET today == t - (t % DaySeconds)
        rows == SelectSeq(acts, LAMBDA r : r.start_time >= today)
        unreadable(r) ==
            \/ u64_from_sql(r.start_time).err
            \/ r.end_time # None /\ u64_from_sql(r.end_time[1]).err
    IN  IF \E r \in Range(rows) : unreadable(r)
        THEN [err |-> TRUE, val |-> <<>>]
        ELSE [err |-> FALSE,
              val |-> [i \in DOMAIN rows |->
                          <<rows[i].name, rows[i].start_time, rows[i].end_time>>]]

\* INSERT INTO clears (time) VALUES (?)
insert_clear(clrs, time) == Append(clrs, [id |-> Len(clrs) + 1, time |-> time])

\* clear_activities without its stop_activity(0)
clear_activities_no_stop(acts, clrs, t1, t2) ==
    [err |-> FALSE, activities |-> acts, clears |-> insert_clear(clrs, t2)]

\* t1 is the clock the stop_activity(0) reads, t2 >= t1 the clock of the marker
clear_activities(acts, clrs, t1, t2) ==
    LET stopped == stop_activity(acts, t1, 0)
    IN  IF stopped.err
        THEN [err |-> TRUE, activities |-> acts, clears |-> clrs]
        ELSE [err |-> FALSE, activities |-> stopped.activities,
              clears |-> insert_clear(clrs, t2)]

\* hard_clear_activities without its DELETE FROM activities
hard_clear_keep_activities(acts, clrs) ==
    [err |-> FALSE, activities |-> acts, clears |-> <<>>]

\* DELETE FROM activities; DELETE FROM clears
hard_clear_activities(acts, clrs) ==
    [err |-> FALSE, activities |-> <<>>, clears |-> <<>>]

\* INSERT INTO clears(id, time) VALUES (1, 0) ON CONFLICT DO NOTHING
init_db(clrs) ==
    IF \E c \in Range(clrs) : c.id = 1 THEN clrs ELSE <<[id |-> 1, time |-> 0]>> \o clrs

\* ------------------------------------- activities.rs, a statement failing

\* rusqlite returns an error from one statement of a command (the disk is full, the
\* file is locked or damaged); the ? after the statement returns it to the caller,
\* and what the statements before it wrote stays written: no command opens a
\* transaction.  step is the statement that fails, if the command gets to it.
StopSteps == {"currrent_activity", "UPDATE"}
StartSteps == {"currrent_activity", "stop_activity", "INSERT"}
ClearSteps == {"stop_activity", "INSERT"}
HardClearSteps == {"DELETE FROM activities", "DELETE FROM clears"}

\* neither the SELECT nor the UPDATE has written anything when it fails
stop_activity_failing(acts, t, offset, step) == [err |-> TRUE, activities |-> acts]

start_activity_failing(acts, t1, t2, name, offset, step) ==
    LET cur == currrent_activity(acts)
        stopped == stop_activity(acts, t2, offset)
    IN  IF step = "currrent_activity" \/ cur.err
        THEN [err |-> TRUE, activities |-> acts]
        ELSE IF step = "stop_activity" \/ stopped.err
        THEN [err |-> TRUE, activities |-> acts]
        ELSE [err |-> TRUE, activities |-> stopped.activities]

clear_activities_failing(acts, clrs, t1, step) ==
    LET stopped == stop_activity(acts, t1, 0)
    IN  IF step = "stop_activity" \/ stopped.err
        THEN [err |-> TRUE, activities |-> acts, clears |-> clrs]
        ELSE [err |-> TRUE, activities |-> stopped.activities, clears |-> clrs]

hard_clear_activities_failing(acts, clrs, step) ==
    IF step = "DELETE FROM activities"
    THEN [err |-> TRUE, activities |-> acts, clears |-> clrs]
    ELSE [err |-> TRUE, activities |-> <<>>, clears |-> clrs]

\* --------------------------------------------------------------- main.rs

\* what a command returns to the presentation layer: Ok(val), Err(message), or
\* no answer because it panicked
Ok == "Ok"
Err == "Err"
Panic == "Panic"
Reply(kind, val) == [kind |-> kind, val |-> val]
\* Result<(), String>
Result(err) == IF err THEN Reply(Err, <<>>) ELSE Reply(Ok, <<>>)

\* the record of a host command: what it was called with and what it returned
Command(op, name, offset, res) ==
    [op |-> op, name |-> name, offset |-> offset, res |-> res]

\* the threads that run the commands the webview invokes
Threads == {1, 2}

\* a thread that runs no command
Idle == [at |-> "idle", op |-> "", name |-> "", start_time |-> 0, times |-> <<>>]

\* Mutex::from(activities), no command invoked, nothing exported or shown yet
HostInit ==
    /\ lock = None
    /\ pc = [t \in Threads |-> Idle]
    /\ file = None
    /\ message = None

\* Reporting and OffsetModal as they are created, once the future spawned at the
\* mount has put the name of the current activity of a new ledger (none: the
\* empty string) in activity_name; Messages::default(). opened_by is history: the
\* control that opened the dialog last
FrontendInit ==
    /\ reporting = [activity_name |-> "", offset_modal_open |-> FALSE, action |-> TRUE,
                    offset |-> 0, opened_by |-> ""]
    /\ messages = <<>>

\* main: a new database after init_db, the application running
Init ==
    /\ activities = <<>>
    /\ clears = init_db(<<>>)
    /\ now = 0
    /\ poisoned = FALSE
    /\ last = Command("main", "", 0, Reply(Ok, <<>>))
    /\ cleared_at = -1
    /\ HostInit
    /\ FrontendInit

\* main, in the last second of the first day
InitDay ==
    /\ activities = <<>>
    /\ clears = init_db(<<>>)
    /\ now = DaySeconds - 1
    /\ poisoned = FALSE
    /\ last = Command("main", "", 0, Reply(Ok, <<>>))
    /\ cleared_at = -1
    /\ HostInit
    /\ FrontendInit

\* the clock advances between two commands
Tick ==
    /\ now < ClockEnd(now)
    /\ now' = now + 1
    /\ UNCHANGED <<activities, clears, poisoned, last, cleared_at, host, frontend>>

StartActivity(name, offset, tick) ==
    /\ ~poisoned
    /\ Len(activities) < MaxRows
    /\ Later(now, tick) <= ClockEnd(now)
    /\ LET r == start_activity(activities, now, Later(now, tick), name, offset)
       IN  /\ activities' = r.activities
           /\ last' = Command("start_activity", name, offset, Result(r.err))
    /\ now' = Later(now, tick)
    /\ UNCHANGED <<clears, poisoned, cleared_at, host, frontend>>

StopActivity(offset) ==
    /\ ~poisoned
    /\ LET r == stop_activity(activities, now, offset)
       IN  /\ activities' = r.activities
           /\ last' = Command("stop_activity", "", offset, Result(r.err))
    /\ UNCHANGED <<clears, now, poisoned, cleared_at, host, frontend>>

ClearActivities(tick) ==
    /\ ~poisoned
    /\ Len(clears) < MaxClears
    /\ Later(now, tick) <= ClockEnd(now)
    /\ LET r == clear_activities(activities, clears, now, Later(now, tick))
       IN  /\ activities' = r.activities
           /\ clears' = r.clears
           /\ last' = Command("clear_activities", "", 0, Result(r.err))
           /\ cleared_at' = IF r.err THEN cleared_at ELSE Later(now, tick)
    /\ now' = Later(now, tick)
    /\ UNCHANGED <<poisoned, host, frontend>>

HardClearActivities ==
    /\ ~poisoned
    /\ LET r == hard_clear_activities(activities, clears)
       IN  /\ activities' = r.activities
           /\ clears' = r.clears
           /\ last' = Command("hard_clear_activities", "", 0, Result(r.err))
    /\ UNCHANGED <<now, poisoned, cleared_at, host, frontend>>

\* the queries answer from the tables and write nothing: their answers are
\* get_current_activity, get_activities_times and list_activities of the state

\* the name of the current activity, the empty string when there is none
get_current_activity(acts) ==
    LET r == currrent_activity(acts)
    IN  IF r.err THEN Reply(Err, <<>>)
        ELSE Reply(Ok, IF r.val = None THEN "" ELSE r.val[1].name)

GetCurrentActivity ==
    /\ ~poisoned
    /\ activities' = select(activities)
    /\ UNCHANGED <<clears, now, poisoned, last, cleared_at, host, frontend>>

\* overflow_checks: the profile the application was built with (on in dev, off
\* in release)
get_activities_times(acts, clrs, t, overflow_checks) ==
    activities_times(acts, clrs, t, overflow_checks)

\* a panic in activities_times unwinds through the MutexGuard and poisons the Mutex
GetActivitiesTimes(overflow_checks) ==
    /\ ~poisoned
    /\ poisoned' =
           (get_activities_times(activities, clears, now, overflow_checks).kind = Panic)
    /\ activities' = select(activities)
    /\ clears' = select(clears)
    /\ UNCHANGED <<now, last, cleared_at, host, frontend>>

ListActivities ==
    /\ ~poisoned
    /\ activities' = select(activities)
    /\ UNCHANGED <<clears, now, poisoned, last, cleared_at, host, frontend>>

\* the statement of todays_activities reads activities only: the clears table is
\* not consulted
TodaysActivities ==
    /\ ~poisoned
    /\ activities' = select(activities)
    /\ UNCHANGED <<clears, now, poisoned, last, cleared_at, host, frontend>>

Next ==
    \/ Tick
    \/ \E name \in Names, offset \in Offsets, tick \in BOOLEAN :
           StartActivity(name, offset, tick)
    \/ \E offset \in Offsets : StopActivity(offset)
    \/ \E tick \in BOOLEAN : ClearActivities(tick)
    \/ HardClearActivities
    \/ GetCurrentActivity
    \/ \E overflow_checks \in BOOLEAN : GetActivitiesTimes(overflow_checks)
    \/ ListActivities
    \/ TodaysActivities

\* the application is closed and started again: main opens the database file it
\* left, runs init_db on it and puts the ledger behind a new Mutex
Restart ==
    /\ clears' = init_db(clears)
    /\ poisoned' = FALSE
    /\ last' = Command("main", "", 0, Reply(Ok, <<>>))
    /\ UNCHANGED <<activities, now, cleared_at, host, frontend>>

NextRestart == Next \/ Restart

\* ------------------------------------------ main.rs, the commands as threads

\* Every command starts with db.lock().unwrap() and keeps the guard to its end;
\* export_activities drops it after activities_times.  A command is invoked, waits
\* for the Mutex, runs its ledger call and returns; start_activity's ledger call
\* is two writes, the UPDATE of its stop_activity and its INSERT.  The commands
\* are invoked with offset 0 and each reads the clock once.

\* the activity the threads start
HostNames == {"A"}

WriteOps == {"stop_activity", "clear_activities", "hard_clear_activities"}
QueryOps == {"get_current_activity", "get_activities_times", "list_activities",
             "todays_activities"}

\* the webview invokes a command: a thread of the host picks it up
Invoke(t, op, name) ==
    /\ pc[t] = Idle
    /\ pc' = [pc EXCEPT ![t] = [Idle EXCEPT !.at = "waiting", !.op = op, !.name = name]]
    /\ UNCHANGED <<activities, clears, now, poisoned, last, cleared_at, lock, file, message, frontend>>

\* a Mutex that lets every thread in
mutex_free_always(l) == TRUE

\* Mutex::lock returns when no other thread holds the guard
mutex_free(l) == l = None

\* db.lock().unwrap(): it panics when the Mutex is poisoned
Lock(t) ==
    /\ pc[t].at = "waiting"
    /\ ~poisoned
    /\ mutex_free(lock)
    /\ pc[t].op = "start_activity" => Len(activities) < MaxRows
    /\ pc[t].op = "clear_activities" => Len(clears) < MaxClears
    /\ lock' = Some(t)
    /\ pc' = [pc EXCEPT ![t].at = "locked"]
    /\ UNCHANGED <<activities, clears, now, poisoned, last, cleared_at, file, message, frontend>>

\* the guard dropped at the end of a command; a guard another thread took by
\* force is not this thread's to drop
guard_dropped(l, t) == IF l = Some(t) THEN None ELSE l

\* start_activity up to the return of its stop_activity: the start_time is
\* computed and the current activity is stopped
HostStartStop(t) ==
    /\ pc[t].at = "locked" /\ pc[t].op = "start_activity"
    /\ LET cur == currrent_activity(activities)
           stopped == stop_activity(activities, now, 0)
       IN  IF cur.err \/ stopped.err
           THEN /\ pc' = [pc EXCEPT ![t] = Idle]
                /\ lock' = guard_dropped(lock, t)
                /\ last' = Command("start_activity", pc[t].name, 0, Result(TRUE))
                /\ UNCHANGED activities
           ELSE /\ pc' = [pc EXCEPT ![t].at = "stopped",
                                    ![t].start_time = start_start_time(cur.val, now, 0)]
                /\ activities' = stopped.activities
                /\ UNCHANGED <<lock, last>>
    /\ UNCHANGED <<clears, now, poisoned, cleared_at, file, message, frontend>>

\* the INSERT of start_activity and the return of the command
HostStartInsert(t) ==
    /\ pc[t].at = "stopped"
    /\ activities' = insert_activity(activities, pc[t].name, pc[t].start_time)
    /\ last' = Command("start_activity", pc[t].name, 0, Result(FALSE))
    /\ pc' = [pc EXCEPT ![t] = Idle]
    /\ lock' = guard_dropped(lock, t)
    /\ UNCHANGED <<clears, now, poisoned, cleared_at, file, message, frontend>>

\* stop_activity, clear_activities or hard_clear_activities, and its return
HostWrite(t) ==
    /\ pc[t].at = "locked" /\ pc[t].op \in WriteOps
    /\ LET op == pc[t].op
           stopped == stop_activity(activities, now, 0)
           r == IF op = "stop_activity"
                THEN [err |-> stopped.err, activities |-> stopped.activities,
                      clears |-> clears]
                ELSE IF op = "clear_activities"
                THEN clear_activities(activities, clears, now, now)
                ELSE hard_clear_activities(activities, clears)
       IN  /\ activities' = r.activities
           /\ clears' = r.clears
           /\ last' = Command(op, "", 0, Result(r.err))
           /\ cleared_at' = IF op = "clear_activities" /\ ~r.err THEN now ELSE cleared_at
    /\ pc' = [pc EXCEPT ![t] = Idle]
    /\ lock' = guard_dropped(lock, t)
    /\ UNCHANGED <<now, poisoned, file, message, frontend>>

\* a query and its return: it answers from the tables as they are at this step
HostQuery(t, overflow_checks) ==
    /\ pc[t].at = "locked" /\ pc[t].op \in QueryOps
    /\ poisoned' =
           /\ pc[t].op = "get_activities_times"
           /\ get_activities_times(activities, clears, now, overflow_checks).kind = Panic
    /\ pc' = [pc EXCEPT ![t] = Idle]
    /\ lock' = guard_dropped(lock, t)
    /\ UNCHANGED <<activities, clears, now, last, cleared_at, file, message, frontend>>

\* drop(activities) without the drop
guard_kept(l, t) == l

\* drop(activities), before the dialog is opened
drop_activities(l, t) == guard_dropped(l, t)

\* the notification Actions::export shows for the reply of export_activities
export_message(reply) ==
    IF reply.kind = Ok
    THEN Some([level |-> "success", text |-> <<"Data exported">>])
    ELSE Some([level |-> "error", text |-> <<"Failed to export data: ", reply.val>>])

\* export_activities up to drop(activities): the times are taken under the lock
HostExportSnapshot(t, overflow_checks) ==
    /\ pc[t].at = "locked" /\ pc[t].op = "export_activities"
    /\ LET r == activities_times(activities, clears, now, overflow_checks)
       IN  IF r.kind = Ok
           THEN /\ pc' = [pc EXCEPT ![t].at = "dialog", ![t].times = r.val]
                /\ lock' = drop_activities(lock, t)
                /\ UNCHANGED <<poisoned, message>>
           ELSE /\ pc' = [pc EXCEPT ![t] = Idle]
                /\ lock' = guard_dropped(lock, t)
                /\ poisoned' = (r.kind = Panic)
                /\ message' = IF r.kind = Panic THEN message
                              ELSE export_message(Reply(Err, <<"rusqlite">>))
    /\ UNCHANGED <<activities, clears, now, last, cleared_at, file, frontend>>

\* how the dialog and the file system answer the callback: the user cancels, or
\* picks a path and File::create, the writeln! of the header, the writeln! of a
\* row or the flush fails, or nothing fails
DialogChoices ==
    {"cancelled", "create_failed", "header_failed", "row_failed", "flush_failed", "saved"}

\* the line of an activity: "{},{}h{}m" of its name, time / 3600 and
\* (time % 3600) / 60
csv_line(activity, time) == <<activity, time \div 3600, (time % 3600) \div 60>>

\* the file the callback writes: the header and a line for each entry of the map,
\* in the order the HashMap yields them
csv(times) ==
    [header |-> <<"Activity", "Time">>,
     lines |-> {csv_line(n, times[n].val) : n \in DOMAIN times}]

\* channel_try! without its return: the error is sent and the callback goes on
channel_try_no_return(cb, result) ==
    IF result.err
    THEN [result.val EXCEPT !.sent = Append(cb.sent, Reply(Err, <<"io">>))]
    ELSE result.val

\* channel_try!(tx, expr): the value of an Ok; an Err is sent down the channel
\* and the callback returns
channel_try(cb, result) ==
    IF result.err
    THEN [cb EXCEPT !.sent = Append(@, Reply(Err, <<"io">>)), !.returned = TRUE]
    ELSE result.val

\* the rows the loop hands to the writer for an answer: none before the loop is
\* reached, some but not all when a row fails, all of them afterwards
RowsWritten(times, choice) ==
    IF choice \in {"cancelled", "create_failed", "header_failed"} THEN {{}}
    ELSE IF choice = "row_failed" THEN SUBSET DOMAIN times \ {DOMAIN times}
    ELSE {DOMAIN times}

\* the closure given to save_file, run to its end: what it sent on tx, the file
\* as the writer was given it, and whether the flush returned Ok
save_file_callback(times, choice, rows) ==
    LET called == [sent |-> <<>>, returned |-> FALSE, file |-> None, flushed |-> FALSE]
    IN  IF choice = "cancelled"
        THEN [called EXCEPT !.sent = <<Reply(Err, <<"No file selected">>)>>,
                            !.returned = TRUE]
        ELSE LET created ==
                     channel_try(called,
                         [err |-> choice = "create_failed",
                          val |-> [called EXCEPT
                                      !.file = Some([header |-> <<>>, lines |-> {}])]])
                 header ==
                     IF created.returned THEN created
                     ELSE channel_try(created,
                              [err |-> choice = "header_failed",
                               val |-> [created EXCEPT
                                           !.file[1].header = <<"Activity", "Time">>]])
                 looped ==
                     IF header.returned THEN header
                     ELSE LET written ==
                                  [header EXCEPT !.file[1].lines =
                                      {csv_line(n, times[n].val) : n \in rows}]
                          IN  channel_try(written,
                                  [err |-> choice = "row_failed", val |-> written])
                 flushed ==
                     IF looped.returned THEN looped
                     ELSE channel_try(looped,
                              [err |-> choice = "flush_failed",
                               val |-> [looped EXCEPT !.flushed = TRUE]])
             IN  IF flushed.returned THEN flushed
                 ELSE [flushed EXCEPT !.sent = Append(@, Reply(Ok, <<>>)),
                                      !.returned = TRUE]

\* rx.recv().unwrap(): the first result sent down the channel
rx_recv(cb) == Head(cb.sent)

\* the user answers the dialog, the callback runs, the command returns what it
\* received and Actions::export shows the notification for it
HostExportDialog(t, choice, rows) ==
    /\ pc[t].at = "dialog"
    /\ rows \in RowsWritten(pc[t].times, choice)
    /\ LET cb == save_file_callback(pc[t].times, choice, rows)
       IN  /\ file' = IF cb.file = None THEN file ELSE cb.file
           /\ message' = export_message(rx_recv(cb))
    /\ pc' = [pc EXCEPT ![t] = Idle]
    /\ UNCHANGED <<activities, clears, now, poisoned, last, cleared_at, lock, frontend>>

NextHost ==
    \/ \E t \in Threads, name \in HostNames : Invoke(t, "start_activity", name)
    \/ \E t \in Threads, op \in WriteOps \cup QueryOps \cup {"export_activities"} :
           Invoke(t, op, "")
    \/ \E t \in Threads : Lock(t)
    \/ \E t \in Threads : HostStartStop(t)
    \/ \E t \in Threads : HostStartInsert(t)
    \/ \E t \in Threads : HostWrite(t)
    \/ \E t \in Threads, overflow_checks \in BOOLEAN : HostQuery(t, overflow_checks)
    \/ \E t \in Threads, overflow_checks \in BOOLEAN : HostExportSnapshot(t, overflow_checks)
    \/ \E t \in Threads, choice \in DialogChoices, rows \in SUBSET HostNames :
           HostExportDialog(t, choice, rows)

\* the commands when a statement fails
StartActivityFails(name, offset, tick, step) ==
    /\ ~poisoned
    /\ Later(now, tick) <= ClockEnd(now)
    /\ LET r == start_activity_failing(activities, now, Later(now, tick), name, offset, step)
       IN  /\ activities' = r.activities
           /\ last' = Command("start_activity", name, offset, Result(r.err))
    /\ now' = Later(now, tick)
    /\ UNCHANGED <<clears, poisoned, cleared_at, host, frontend>>

StopActivityFails(offset, step) ==
    /\ ~poisoned
    /\ LET r == stop_activity_failing(activities, now, offset, step)
       IN  /\ activities' = r.activities
           /\ last' = Command("stop_activity", "", offset, Result(r.err))
    /\ UNCHANGED <<clears, now, poisoned, cleared_at, host, frontend>>

ClearActivitiesFails(step) ==
    /\ ~poisoned
    /\ LET r == clear_activities_failing(activities, clears, now, step)
       IN  /\ activities' = r.activities
           /\ clears' = r.clears
           /\ last' = Command("clear_activities", "", 0, Result(r.err))
    /\ UNCHANGED <<now, poisoned, cleared_at, host, frontend>>

HardClearActivitiesFails(step) ==
    /\ ~poisoned
    /\ LET r == hard_clear_activities_failing(activities, clears, step)
       IN  /\ activities' = r.activities
           /\ clears' = r.clears
           /\ last' = Command("hard_clear_activities", "", 0, Result(r.err))
    /\ UNCHANGED <<now, poisoned, cleared_at, host, frontend>>

StorageFails ==
    \/ \E name \in Names, offset \in Offsets, tick \in BOOLEAN, step \in StartSteps :
           StartActivityFails(name, offset, tick, step)
    \/ \E offset \in Offsets, step \in StopSteps : StopActivityFails(offset, step)
    \/ \E step \in ClearSteps : ClearActivitiesFails(step)
    \/ \E step \in HardClearSteps : HardClearActivitiesFails(step)

NextFail == Next \/ StorageFails

\* ------------------------------------------------ components/reporting.rs

\* what the user can type in the activity input: nothing, or a name
InputValues == {"", "A"}

\* the arrow keys are pressed while the offset stays within -MaxOffset .. MaxOffset
MaxOffset == 1800

\* notifications are posted while fewer than MaxMessages are on display
MaxMessages == 2

\* the keys handle_key tells apart, and one of the others
Keys == {"ArrowLeft", "ArrowRight", "Escape", "Enter", "Tab"}

\* the effect of OffsetModal without set_offset.set(0)
effect_no_reset(r) == r

\* the effect of OffsetModal, which runs whenever the signal open is set: nothing
\* when the dialog is closed, the offset back to 0 when it is open
effect(r) == IF ~r.offset_modal_open THEN r ELSE [r EXCEPT !.offset = 0]

\* modal_cb(v): set_offset_modal_open.set(v)
modal_cb(r, v) == effect([r EXCEPT !.offset_modal_open = v])

close(r) == modal_cb(r, FALSE)

\* the step of an arrow key, in seconds
shift(shift_key) == IF shift_key THEN 10 * 60 ELSE 30 * 60

\* handle_key: the signals after the key, and the offset offset_cb is called
\* with, if it is called
handle_key(r, key, shift_key) ==
    IF key = "ArrowLeft"
    THEN [reporting |-> [r EXCEPT !.offset = @ - shift(shift_key)], offset_cb |-> None]
    ELSE IF key = "ArrowRight"
    THEN [reporting |-> [r EXCEPT !.offset = @ + shift(shift_key)], offset_cb |-> None]
    ELSE IF key = "Escape"
    THEN [reporting |-> close(r), offset_cb |-> None]
    ELSE IF key = "Enter"
    THEN [reporting |-> close(r), offset_cb |-> Some(r.offset)]
    ELSE [reporting |-> r, offset_cb |-> None]

\* on:change of the activity input
update_value(r, value) == [r EXCEPT !.activity_name = value]

\* on:submit of the form (the closure start_activity of Reporting)
Reporting_start_activity(r) ==
    effect([r EXCEPT !.action = TRUE, !.offset_modal_open = TRUE, !.opened_by = "form"])

\* on:click of the Stop button (the closure stop_activity of Reporting)
Reporting_stop_activity(r) ==
    effect([r EXCEPT !.action = FALSE, !.offset_modal_open = TRUE, !.opened_by = "stop"])

\* the notification offset_submit posts for the reply of the command
offset_submit_message(action, activity, res) ==
    IF action
    THEN IF res.kind = Ok
         THEN [level |-> "success", text |-> <<"Started activity: ", activity>>]
         ELSE [level |-> "error", text |-> <<"Failed to start activity">>]
    ELSE IF res.kind = Ok
         THEN [level |-> "success", text |-> <<"Stopped activity: ", activity>>]
         ELSE [level |-> "error", text |-> <<"Failed to stop activity">>]

\* Messages::success and Messages::error: the message and the time of its post
push(msgs, msg, t) == Append(msgs, [message |-> msg, time |-> t])

\* offset_submit(offset) and the future it spawns: the command of the host for
\* the action and the activity_name read at this moment, then the notification
OffsetSubmit(offset) ==
    LET activity == reporting.activity_name
        r == IF reporting.action
             THEN start_activity(activities, now, now, activity, offset)
             ELSE stop_activity(activities, now, offset)
        res == Result(r.err)
    IN  /\ reporting.action => Len(activities) < MaxRows
        /\ Len(messages) < MaxMessages
        /\ activities' = r.activities
        /\ last' = IF reporting.action
                   THEN Command("start_activity", activity, offset, res)
                   ELSE Command("stop_activity", "", offset, res)
        /\ messages' = push(messages, offset_submit_message(reporting.action, activity, res), now)

UpdateValue(value) ==
    /\ reporting' = update_value(reporting, value)
    /\ UNCHANGED <<activities, clears, now, poisoned, last, cleared_at, host, messages>>

Submit ==
    /\ reporting' = Reporting_start_activity(reporting)
    /\ UNCHANGED <<activities, clears, now, poisoned, last, cleared_at, host, messages>>

ClickStop ==
    /\ reporting' = Reporting_stop_activity(reporting)
    /\ UNCHANGED <<activities, clears, now, poisoned, last, cleared_at, host, messages>>

\* on:keydown of the dialog, which is displayed only while it is open
KeyDown(key, shift_key) ==
    /\ reporting.offset_modal_open
    /\ LET h == handle_key(reporting, key, shift_key)
       IN  /\ h.reporting.offset \in -MaxOffset .. MaxOffset
           /\ reporting' = h.reporting
           /\ IF h.offset_cb = None
              THEN UNCHANGED <<activities, last, messages>>
              ELSE OffsetSubmit(h.offset_cb[1])
    /\ UNCHANGED <<clears, now, poisoned, cleared_at, host>>

\* on:click of the Cancel button of the dialog
ClickCancel ==
    /\ reporting.offset_modal_open
    /\ reporting' = close(reporting)
    /\ UNCHANGED <<activities, clears, now, poisoned, last, cleared_at, host, messages>>

NextUI ==
    \/ \E value \in InputValues : UpdateValue(value)
    \/ Submit
    \/ ClickStop
    \/ \E key \in Keys, shift_key \in BOOLEAN : KeyDown(key, shift_key)
    \/ ClickCancel

\* ------------------------------------------------------ notifications.rs

MESSAGE_TIMEOUT == 5

\* the period of the set_interval of Notifications, in seconds
RemovalPeriod == 1

\* the clock of the notifications stops at MaxTime
MaxTime == 7

\* messages the components post
Posted ==
    {[level |-> "success", text |-> <<"Data exported">>],
     [level |-> "error", text |-> <<"Failed to start activity">>]}

\* now.duration_since(time).unwrap_or_default(): zero when time is later than now
duration_since_or_default(t, time) == IF t >= time THEN t - time ELSE 0

\* retain with <= in place of <
remove_old_messages_inclusive(msgs, t) ==
    SelectSeq(msgs, LAMBDA m : duration_since_or_default(t, m.time) <= MESSAGE_TIMEOUT)

\* remove_old_messages at clock t
remove_old_messages(msgs, t) ==
    SelectSeq(msgs, LAMBDA m : duration_since_or_default(t, m.time) < MESSAGE_TIMEOUT)

\* a component posts a notification; it is posted while the clock can still
\* reach the end of its timeout
Post(msg) ==
    /\ Len(messages) < MaxMessages
    /\ now + MESSAGE_TIMEOUT <= MaxTime
    /\ messages' = push(messages, msg, now)
    /\ UNCHANGED <<activities, clears, now, poisoned, last, cleared_at, host, reporting>>

\* the interval of Notifications fires, a second after it fired last
Interval ==
    /\ now + RemovalPeriod <= MaxTime
    /\ now' = now + RemovalPeriod
    /\ messages' = remove_old_messages(messages, now')
    /\ UNCHANGED <<activities, clears, poisoned, last, cleared_at, host, reporting>>

NextNotifications ==
    \/ \E msg \in Posted : Post(msg)
    \/ Interval

\* ---------------------------------------------------------------- claims

\* the build profiles activities_times is read under
Profiles == BOOLEAN

\* the row a start_activity inserted is the last one
Newest(acts) == acts[Len(acts)]

RECURSIVE SumOver(_, _)
SumOver(S, acts) ==
    IF S = {} THEN 0
    ELSE LET i == CHOOSE j \in S : TRUE
             until == IF acts[i].end_time = None THEN now ELSE acts[i].end_time[1]
         IN  (until - acts[i].start_time) + SumOver(S \ {i}, acts)

\* C1: at most one Interval has an absent end_time, in every reachable state
C1_AtMostOneOpen == Cardinality(OpenRows(activities)) <= 1

\* a start of B found A running: A is closed where B starts, B alone is open
C1_Witness ==
    /\ last.op = "start_activity" /\ last.name = "B" /\ last.res.kind = Ok
    /\ Len(activities) = 2
    /\ activities[1].name = "A"
    /\ activities[1].start_time < activities[2].start_time
    /\ activities[1].end_time = Some(activities[2].start_time)
    /\ OpenRows(activities) = {2}

\* C2: a start that succeeds while an Interval A is open leaves A closed, the new
\* Interval B the only open one, and A.end_time = B.start_time, for every offset
C2_StartClosesPrevious ==
    [][\A name \in Names, offset \in Offsets, tick \in BOOLEAN :
          (/\ StartActivity(name, offset, tick)
           /\ OpenRows(activities) # {}
           /\ last'.res.kind = Ok)
          => LET a == LatestOpen(activities)
                 b == Len(activities')
             IN  /\ activities'[a].end_time # None
                 /\ OpenRows(activities') = {b}
                 /\ activities'[b].name = name
                 /\ activities'[a].end_time = Some(activities'[b].start_time)]_vars

\* C3: a stop called at clock now while an Interval with start_time s is open
\* closes it with end_time = s when now + offset < s and with end_time =
\* now + offset otherwise, so never before s
C3_ClampOnStop ==
    [][\A offset \in Offsets :
          (StopActivity(offset) /\ OpenRows(activities) # {})
          => LET a == LatestOpen(activities)
                 s == activities[a].start_time
             IN  /\ activities'[a].end_time =
                        Some(IF now + offset < s THEN s ELSE now + offset)
                 /\ activities'[a].end_time[1] >= s]_vars

\* C4: after a successful start(name, offset) at clock now the current activity is
\* (name, t), t = now + offset when nothing was open and the larger of now + offset
\* and the open Interval's start_time otherwise, and the inserted Interval is the
\* open one
C4_StartPostcondition ==
    [][\A name \in Names, offset \in Offsets, tick \in BOOLEAN :
          (StartActivity(name, offset, tick) /\ last'.res.kind = Ok)
          => LET t == IF OpenRows(activities) = {}
                      THEN now + offset
                      ELSE Max(now + offset,
                               activities[LatestOpen(activities)].start_time)
             IN  /\ currrent_activity(activities') =
                        [err |-> FALSE,
                         val |-> Some([name |-> name, start_time |-> t])]
                 /\ OpenRows(activities') = {Len(activities')}
                 /\ Len(activities') = Len(activities) + 1]_vars

\* C5: with no Interval open, stop(offset) returns success and changes no Interval
\* and no ClearMarker, for every offset; so does a stop that follows a stop
C5_IdempotentStop ==
    [][\A offset \in Offsets :
          (/\ StopActivity(offset)
           /\ \/ OpenRows(activities) = {}
              \/ last.op = "stop_activity" /\ last.res.kind = Ok)
          => /\ last'.res.kind = Ok
             /\ activities' = activities
             /\ clears' = clears]_vars

\* stop(1) has returned success with two Intervals stored that it did not close:
\* one it had closed would end after the epoch
C5_Witness ==
    /\ last.op = "stop_activity" /\ last.res.kind = Ok /\ last.offset = 1
    /\ Len(activities) = 2
    /\ \A i \in DOMAIN activities :
           /\ activities[i].end_time # None
           /\ activities[i].end_time[1] <= 0

\* C6: once clear() has inserted a marker at clock c, aggregateTimes() is what it
\* would be without the Intervals that started before c, and the clear leaves the
\* set of names listActivities() returns as it was
C6_Excludes ==
    cleared_at >= 0 =>
        LET started_before(r) == r.start_time < cleared_at
            kept(r) == ~started_before(r)
        IN  /\ \A dbg \in Profiles :
                   activities_times(activities, clears, now, dbg) =
                       activities_times(SelectSeq(activities, kept), clears, now, dbg)
            /\ \A r \in Range(counted_rows(activities, clears)) : kept(r)

C6_ListKept ==
    \A tick \in BOOLEAN :
        (ClearActivities(tick) /\ last'.res.kind = Ok)
        => Range(list_activities(activities')) = Range(list_activities(activities))

C6_ClearIsolation == []C6_Excludes /\ [][C6_ListKept]_vars

\* after a clear, A started before it and is listed but not counted; B started
\* after it and is counted
C6_Witness ==
    /\ cleared_at = 1
    /\ Len(activities) = 2
    /\ activities[1].name = "A" /\ activities[1].start_time = 0
    /\ activities[2].name = "B" /\ activities[2].start_time = 1
    /\ list_activities(activities) = <<"A", "B">>
    /\ \A dbg \in Profiles :
           LET r == activities_times(activities, clears, now, dbg)
           IN  r.kind = Ok /\ DOMAIN r.val = {"B"}

\* C7: once hardClear() has succeeded and until the next command, listActivities()
\* and aggregateTimes() are empty and no Interval and no ClearMarker is stored
C7_HardClearTotality ==
    (last.op = "hard_clear_activities" /\ last.res.kind = Ok) =>
        /\ activities = <<>>
        /\ clears = <<>>
        /\ list_activities(activities) = <<>>
        /\ \A dbg \in Profiles :
               LET r == activities_times(activities, clears, now, dbg)
               IN  r.kind = Ok /\ DOMAIN r.val = {}

\* hardClear has succeeded on a store that a clear had put a marker in
C7_Witness ==
    /\ last.op = "hard_clear_activities" /\ last.res.kind = Ok
    /\ cleared_at >= 0
    /\ now > cleared_at

\* C8: start(n, 0) then stop(0) with no command between them: aggregateTimes()
\* then has an entry for n, and its total includes the seconds between the start
\* of that Interval and the stop
C8_TrackedTimeReported ==
    [][(/\ last.op = "start_activity" /\ last.offset = 0 /\ last.res.kind = Ok
        /\ StopActivity(0))
       => \A dbg \in Profiles :
              LET r == activities_times(activities', clears', now', dbg)
                  n == last.name
              IN  /\ r.kind = Ok
                  /\ n \in DOMAIN r.val
                  /\ ~r.val[n].wrapped
                  /\ r.val[n].val >= now' - Newest(activities).start_time]_vars

\* C9: at least one ClearMarker exists in every reachable state
C9_ClearMarkerExists == clears # <<>>

\* C10: aggregateTimes() has an entry for exactly the names with an Interval that
\* starts at or after the greatest ClearMarker time, and the entry is the sum of
\* end_time - start_time (closed) and now - start_time (open) over those Intervals
C10_Aggregation ==
    LET since == {c.time : c \in Range(clears)}
        counted == {i \in DOMAIN activities :
                        /\ since # {}
                        /\ \A t \in since : activities[i].start_time >= t}
        of(n) == {i \in counted : activities[i].name = n}
        names == {activities[i].name : i \in counted}
    IN  \A dbg \in Profiles :
            activities_times(activities, clears, now, dbg) =
                Reply(Ok, [n \in names |->
                              [wrapped |-> FALSE, val |-> SumOver(of(n), activities)]])

\* C11: todaysActivities() at clock now returns the Intervals (name, start_time,
\* optional end_time) with start_time >= now - (now mod 86400), all of them and no
\* other, whatever ClearMarkers are stored: the Intervals started before a marker
\* that clear() inserted are in it too
C11_TodaysActivities ==
    LET D == now - (now % 86400)
        today == {i \in DOMAIN activities : activities[i].start_time >= D}
        r == todays_activities(activities, clears, now)
    IN  /\ ~r.err
        /\ Len(r.val) = Cardinality(today)
        /\ Range(r.val) =
               {<<activities[i].name, activities[i].start_time, activities[i].end_time>> :
                    i \in today}
        /\ \A i \in today :
               activities[i].start_time < cleared_at =>
                   \E k \in DOMAIN r.val :
                       r.val[k][1] = activities[i].name
                       /\ r.val[k][2] = activities[i].start_time

\* the day has changed and a clear has put a marker at its first second: A, started
\* the day before, is not returned and B, started at the first second, is
C11_Witness ==
    /\ now = 86400
    /\ cleared_at = 86400
    /\ Len(activities) = 2
    /\ activities[1].name = "A" /\ activities[1].start_time = 86399
    /\ todays_activities(activities, clears, now) =
           [err |-> FALSE, val |-> <<<<"B", 86400, Some(86400)>>>>]

\* C12: listActivityNames() returns the distinct names of all stored Intervals,
\* open, closed or cleared, each name once; only a start adds a name to it and
\* only a hardClear takes one from it
C12_Distinct ==
    LET list == list_activities(activities)
    IN  /\ Range(list) = {r.name : r \in Range(activities)}
        /\ \A i, j \in DOMAIN list : list[i] = list[j] => i = j

C12_GrowsShrinks ==
    LET before == Range(list_activities(activities))
        after == Range(list_activities(activities'))
    IN  /\ after \ before # {} =>
               \E name \in Names, offset \in Offsets, tick \in BOOLEAN :
                   StartActivity(name, offset, tick) /\ after = before \cup {name}
        /\ before \ after # {} => HardClearActivities

C12_ListNames == []C12_Distinct /\ [][C12_GrowsShrinks]_vars

\* A was tracked twice, the first time before a clear: it is listed once
C12_Witness ==
    /\ Len(activities) = 2
    /\ activities[1].name = "A" /\ activities[2].name = "A"
    /\ cleared_at > activities[1].start_time
    /\ activities[2].end_time = None
    /\ list_activities(activities) = <<"A">>

\* C13: currentActivity() returns absent exactly when no Interval is open, and
\* otherwise the name and start_time of the open Interval; get_current_activity
\* returns that name, or the empty string when none is open
C13_CurrentActivity ==
    IF OpenRows(activities) = {}
    THEN /\ currrent_activity(activities) = [err |-> FALSE, val |-> None]
         /\ get_current_activity(activities) = Reply(Ok, "")
    ELSE LET row == activities[LatestOpen(activities)]
         IN  /\ currrent_activity(activities) =
                    [err |-> FALSE,
                     val |-> Some([name |-> row.name, start_time |-> row.start_time])]
             /\ get_current_activity(activities) = Reply(Ok, row.name)

\* C14: after init has run, on whatever the application left in the store, a
\* ClearMarker with identifier 1 and time 0 exists; and init run on a store that
\* holds that marker changes no Interval and no ClearMarker
C14_InitReseeds ==
    [][Restart =>
          LET epoch == [id |-> 1, time |-> 0]
          IN  /\ epoch \in Range(clears')
              /\ epoch \in Range(clears) =>
                     activities' = activities /\ clears' = clears]_vars

\* a thread is in the ledger call of its command
InLedger(t) == pc[t].at \in {"locked", "stopped"}

\* C15: a command holds the ledger lock for the whole of its ledger call, so no two
\* ledger calls overlap; and no query, and no snapshot of an export, reads the
\* tables while a start has closed the previous Interval and not yet inserted the
\* new one
C15_OneInLedger ==
    /\ \A t \in Threads : InLedger(t) => lock = Some(t)
    /\ \A t, u \in Threads : InLedger(t) /\ InLedger(u) => t = u

C15_NoMidStartRead ==
    \A t \in Threads, overflow_checks \in BOOLEAN :
        (HostQuery(t, overflow_checks) \/ HostExportSnapshot(t, overflow_checks))
        => \A u \in Threads : pc[u].at # "stopped"

C15_HostSerialized == []C15_OneInLedger /\ [][C15_NoMidStartRead]_vars

\* thread 1 is in the middle of a start, the previous Interval closed and the new
\* one not inserted, and get_current_activity on thread 2 waits for the lock
C15_Witness ==
    /\ pc[1].at = "stopped" /\ lock = Some(1)
    /\ Len(activities) = 1 /\ OpenRows(activities) = {}
    /\ pc[2].at = "waiting" /\ pc[2].op = "get_current_activity"

\* C16: export takes its snapshot of the times under the lock and has released the
\* lock when the dialog is open: the lock is then free, or held by another command
\* in its ledger call; the commands that run meanwhile leave the snapshot as it
\* is, and the lines written are those of the snapshot
C16_DialogUnlocked ==
    \A t \in Threads :
        pc[t].at = "dialog" =>
            /\ lock # Some(t)
            /\ lock = None \/ \E u \in Threads \ {t} : InLedger(u) /\ lock = Some(u)

C16_SnapshotWritten ==
    \A t \in Threads :
        /\ \A overflow_checks \in BOOLEAN :
               (HostExportSnapshot(t, overflow_checks) /\ pc'[t].at = "dialog")
               => /\ lock = Some(t)
                  /\ pc'[t].times =
                         activities_times(activities, clears, now, overflow_checks).val
        /\ (pc[t].at = "dialog" /\ pc'[t].at = "dialog") => pc'[t].times = pc[t].times
        /\ HostExportDialog(t, "saved", DOMAIN pc[t].times)
               => file' = Some(csv(pc[t].times))

C16_ExportSnapshot == []C16_DialogUnlocked /\ [][C16_SnapshotWritten]_vars

\* the export of thread 1 took its snapshot before anything was tracked and waits
\* at the dialog; a start of A has completed since, and a stop holds the lock
C16_Witness ==
    /\ pc[1].at = "dialog" /\ pc[1].times = <<>>
    /\ last.op = "start_activity" /\ last.res.kind = Ok
    /\ Len(activities) = 1
    /\ pc[2].at = "locked" /\ pc[2].op = "stop_activity"

\* C18: an export the user cancels at the file selection ends with an outcome that
\* is not the error a failed file creation or write ends with, and the user is not
\* shown a failure
C18_CancelDistinct ==
    [][\A t \in Threads :
          HostExportDialog(t, "cancelled", {}) =>
              /\ rx_recv(save_file_callback(pc[t].times, "cancelled", {})).kind
                     # rx_recv(save_file_callback(pc[t].times, "create_failed", {})).kind
              /\ message'[1].level # "error"]_vars

\* C17: a start, stop, clear or hardClear with a storage step that fails returns an
\* error and leaves the stored Intervals and ClearMarkers as they were before it
C17_NoPartialWrite ==
    [][StorageFails =>
          /\ last'.res.kind = Err
          /\ activities' = activities
          /\ clears' = clears]_vars

\* C19: every closed Interval has end_time >= start_time, in every reachable state
C19_NoNegativeDuration ==
    \A r \in Range(activities) : r.end_time # None => r.end_time[1] >= r.start_time

\* a stop backdated to before the start of the open Interval has closed it where
\* it started
C19_Witness ==
    /\ last.op = "stop_activity" /\ last.offset = -1 /\ last.res.kind = Ok
    /\ activities # <<>>
    /\ Newest(activities).start_time = now
    /\ Newest(activities).end_time = Some(now)

\* the rows of a table before a step are still there after it, as they were; an
\* Interval that was open may have been closed
Kept(acts1, acts2, clrs1, clrs2) ==
    /\ Len(acts2) >= Len(acts1)
    /\ \A i \in DOMAIN acts1 :
           /\ acts2[i].id = acts1[i].id
           /\ acts2[i].name = acts1[i].name
           /\ acts2[i].start_time = acts1[i].start_time
           /\ acts1[i].end_time # None => acts2[i].end_time = acts1[i].end_time
    /\ Len(clrs2) >= Len(clrs1)
    /\ \A i \in DOMAIN clrs1 : clrs2[i] = clrs1[i]

\* C20: no step but a hardClear, so no start, stop or clear, deletes an Interval
\* or a ClearMarker or changes a name, a start_time, a marker time or the end_time
\* of a closed Interval; a stop changes at most one Interval, the open one
C20_AppendOnly ==
    [][/\ HardClearActivities \/ Kept(activities, activities', clears, clears')
       /\ \A offset \in Offsets :
              StopActivity(offset) =>
                  /\ Len(activities') = Len(activities)
                  /\ clears' = clears
                  /\ \A i \in DOMAIN activities :
                         activities'[i] # activities[i] =>
                             OpenRows(activities) = {i}]_vars

\* a stop has closed B and left A, closed earlier, as it was
C20_Witness ==
    /\ last.op = "stop_activity" /\ last.res.kind = Ok
    /\ Len(activities) = 2
    /\ activities[1].end_time = Some(0)
    /\ activities[2].start_time = 0
    /\ activities[2].end_time = Some(1)
    /\ Len(clears) = 2

\* C21 as stated, with one clock value c for the whole clear(): no Interval is
\* open and currentActivity() is absent, one ClearMarker with time c has been
\* added and nothing else has changed but the Interval that was open, closed as
\* by stop(0) at c
C21_ClearEffect ==
    [][\A tick \in BOOLEAN :
          (ClearActivities(tick) /\ last'.res.kind = Ok)
          => LET c == now'
             IN  /\ OpenRows(activities') = {}
                 /\ currrent_activity(activities') = [err |-> FALSE, val |-> None]
                 /\ clears' = Append(clears, [id |-> Len(clears) + 1, time |-> c])
                 /\ activities' = stop_activity(activities, c, 0).activities]_vars

\* C21: after a successful clear() that reads the clock as t for its stop and as
\* c >= t for its marker, no Interval is open and currentActivity() is absent, one
\* ClearMarker with time c has been added and nothing else has changed but the
\* Interval that was open, closed as by stop(0) at t
C21_ClearEffectTwoReads ==
    [][\A tick \in BOOLEAN :
          (ClearActivities(tick) /\ last'.res.kind = Ok)
          => LET t == now
                 c == now'
             IN  /\ t <= c
                 /\ OpenRows(activities') = {}
                 /\ currrent_activity(activities') = [err |-> FALSE, val |-> None]
                 /\ clears' = Append(clears, [id |-> Len(clears) + 1, time |-> c])
                 /\ activities' = stop_activity(activities, t, 0).activities]_vars

\* a clear has closed the open Interval at 0 and put its marker at 1
C21_Witness ==
    /\ last.op = "clear_activities" /\ last.res.kind = Ok
    /\ now = 1 /\ cleared_at = 1
    /\ Len(activities) = 1
    /\ activities[1].start_time = 0 /\ activities[1].end_time = Some(0)
    /\ clears = <<[id |-> 1, time |-> 0], [id |-> 2, time |-> 1]>>

\* C22: right after a successful clear() aggregateTimes() has no positive total
C22_ClearResets ==
    [][\A tick \in BOOLEAN :
          (ClearActivities(tick) /\ last'.res.kind = Ok)
          => \A dbg \in Profiles :
                 LET r == activities_times(activities', clears', now', dbg)
                 IN  /\ r.kind = Ok
                     /\ \A n \in DOMAIN r.val : ~r.val[n].wrapped /\ r.val[n].val <= 0]_vars

\* C23: aggregateTimes() computes no negative duration: at every clock each counted
\* Interval contributes end_time - start_time >= 0 or now - start_time >= 0, and
\* the subtraction neither panics nor wraps
C23_NoNegativeContribution ==
    /\ \A r \in Range(counted_rows(activities, clears)) :
           (IF r.end_time = None THEN now ELSE r.end_time[1]) - r.start_time >= 0
    /\ \A dbg \in Profiles :
           LET t == activities_times(activities, clears, now, dbg)
           IN  /\ t.kind # Panic
               /\ t.kind = Ok => \A n \in DOMAIN t.val : ~t.val[n].wrapped

\* C25: of two Intervals the one created earlier ends at or before the start_time
\* of the one created later
C25_NoOverlap ==
    \A i, j \in DOMAIN activities :
        i < j => /\ activities[i].end_time # None
                 /\ activities[i].end_time[1] <= activities[j].start_time

\* C26: every stored start_time and end_time is >= 0, so currentActivity() reads
\* the start_time of every open Interval
C26_NonNegativeTimes ==
    /\ \A r \in Range(activities) :
           /\ r.start_time >= 0
           /\ r.end_time # None => r.end_time[1] >= 0
    /\ ~currrent_activity(activities).err

\* C27: the four queries are read-only: a step of currentActivity(),
\* listActivityNames(), aggregateTimes() or todaysActivities() leaves every
\* Interval and every ClearMarker as it was, also when aggregateTimes() panics
C27_QueriesReadOnly ==
    [][(\/ GetCurrentActivity
        \/ ListActivities
        \/ TodaysActivities
        \/ \E overflow_checks \in BOOLEAN : GetActivitiesTimes(overflow_checks))
       => activities' = activities /\ clears' = clears]_vars

\* aggregateTimes() has run (it is the one step that poisons the Mutex) on a
\* ledger with an open Interval and two ClearMarkers, and they are all there
C27_Witness ==
    /\ poisoned
    /\ Len(activities) = 2
    /\ activities[1].end_time # None /\ activities[2].end_time = None
    /\ Len(clears) = 2

\* C28: whichever way the dialog and the file system answer (cancel, file
\* creation failure, header or row write failure, flush failure, success), the
\* callback sends exactly one result down the channel and returns, the command
\* returns that result, and the result is Ok only if the header and the line of
\* every entry of the snapshot were written and the flush succeeded
C28_ExportOneResult ==
    [][\A t \in Threads, choice \in DialogChoices, rows \in SUBSET HostNames :
          HostExportDialog(t, choice, rows) =>
              LET cb == save_file_callback(pc[t].times, choice, rows)
              IN  /\ Len(cb.sent) = 1
                  /\ cb.returned
                  /\ message' = export_message(cb.sent[1])
                  /\ (cb.sent[1].kind = Ok) = (choice = "saved")
                  /\ cb.sent[1].kind = Ok =>
                         /\ cb.file = Some(csv(pc[t].times))
                         /\ cb.flushed
                         /\ file' = Some(csv(pc[t].times))]_vars

\* an export has ended with the error of a write: the header is in the file, the
\* line of A is not, and the user was shown the failure
C28_Witness ==
    /\ file = Some([header |-> <<"Activity", "Time">>, lines |-> {}])
    /\ message = export_message(Reply(Err, <<"io">>))
    /\ activities # <<>>
    /\ \A t \in Threads : pc[t].at = "idle"

\* C24: every stored Interval has a non-empty name, whatever the user does with
\* the start form and the offset dialog
C24_NonEmptyNames == \A r \in Range(activities) : r.name # ""

\* C29: opening the dialog sets the offset to 0; ArrowLeft and ArrowRight change it
\* by -/+1800 (-/+600 with Shift) and do nothing else; Enter makes exactly one call
\* with the offset shown, start(activity_name, offset) if the form opened the
\* dialog and stop(offset) if the Stop button did, and closes the dialog; Escape
\* and Cancel close it and leave the ledger alone
C29_OffsetDialog ==
    [][/\ (Submit \/ ClickStop) =>
              reporting'.offset_modal_open /\ reporting'.offset = 0
       /\ \A shift_key \in BOOLEAN :
              /\ KeyDown("ArrowLeft", shift_key) =>
                     /\ reporting'.offset =
                            reporting.offset - (IF shift_key THEN 600 ELSE 1800)
                     /\ reporting'.offset_modal_open
                     /\ activities' = activities /\ last' = last
              /\ KeyDown("ArrowRight", shift_key) =>
                     /\ reporting'.offset =
                            reporting.offset + (IF shift_key THEN 600 ELSE 1800)
                     /\ reporting'.offset_modal_open
                     /\ activities' = activities /\ last' = last
              /\ KeyDown("Enter", shift_key) =>
                     /\ ~reporting'.offset_modal_open
                     /\ reporting.opened_by = "form" =>
                            /\ activities' =
                                   start_activity(activities, now, now,
                                       reporting.activity_name, reporting.offset).activities
                            /\ last' = Command("start_activity", reporting.activity_name,
                                           reporting.offset, last'.res)
                     /\ reporting.opened_by = "stop" =>
                            /\ activities' =
                                   stop_activity(activities, now, reporting.offset).activities
                            /\ last' = Command("stop_activity", "", reporting.offset,
                                           last'.res)
              /\ (KeyDown("Escape", shift_key) \/ ClickCancel) =>
                     /\ ~reporting'.offset_modal_open
                     /\ activities' = activities /\ last' = last]_vars

\* the Stop button opened the dialog on a running A, the offset was taken from 0 to
\* -1200, and Enter stopped A with it and closed the dialog
C29_Witness ==
    /\ last = Command("stop_activity", "", -1200, Reply(Ok, <<>>))
    /\ ~reporting.offset_modal_open
    /\ reporting.opened_by = "stop" /\ reporting.offset = -1200
    /\ Len(activities) = 1
    /\ activities[1].name = "A" /\ activities[1].end_time = Some(0)

\* the notifications with their times, as they can be on display
Entries == {[message |-> m, time |-> t] : m \in Posted, t \in 0 .. MaxTime}

\* C30: a run of remove_old_messages keeps exactly the messages posted less than
\* 5 seconds before it, in their order
C30_KeepsYounger ==
    Interval => messages' = SelectSeq(messages, LAMBDA m : now' - m.time < 5)

\* C30: no step removes a message that is not yet 5 seconds old
C30_NoEarlyRemoval ==
    /\ \A m \in Range(messages) \ Range(messages') : now' - m.time >= 5
    /\ Len(messages') >= Len(SelectSeq(messages, LAMBDA m : now' - m.time < 5))

\* C30: each run of remove_old_messages keeps exactly the messages younger than 5
\* seconds, in their original order; with the removal run every second, every
\* message posted is removed in the end, and none before it is 5 seconds old
C30_NotificationExpiry ==
    /\ [][C30_KeepsYounger /\ C30_NoEarlyRemoval]_vars
    /\ \A m \in Entries : (m \in Range(messages)) ~> (m \notin Range(messages))

\* the removal has run at second 6: the message posted at second 1 is gone and
\* the one posted at second 2, 4 seconds old, is still shown
C30_Witness ==
    /\ now = 6
    /\ Len(messages) = 1
    /\ messages[1].time = 2

Spec == Init /\ [][Next]_vars

\* the commands on the threads of the host, the user at the save dialog
SpecHost == Init /\ [][NextHost]_vars

\* the application with a storage that can fail
SpecFail == Init /\ [][NextFail]_vars

\* the application used, closed and started again any number of times
SpecRestart == Init /\ [][NextRestart]_vars

\* the application started in the last second of a day
SpecDay == InitDay /\ [][Next]_vars

\* the start form, the Stop button and the offset dialog of Reporting, each
\* handler one step, with the command of the host it invokes
SpecUI == Init /\ [][NextUI]_vars

\* the notifications: components post them, and the interval set at the mount
\* keeps firing
SpecNotifications == Init /\ [][NextNotifications]_vars /\ WF_vars(Interval)

====
